---- MODULE Spec2Model ----
(***************************************************************************)
(* Model of vocode/streaming/transcriber/rev_ai_transcriber.py: the        *)
(* RevAITranscriber worker.  _run_loop restarts process() up to            *)
(* NUM_RESTARTS times; process() opens one websocket and gathers a sender  *)
(* (input queue -> wire) and a receiver (wire -> Transcription events);    *)
(* terminate() enqueues the CloseStream message and sets closed.           *)
(*                                                                         *)
(* The tasks run on one asyncio event loop: every action below is the code *)
(* a task runs between two suspension points (await), so actions are       *)
(* atomic and interleave only at awaits.                                   *)
(***************************************************************************)
EXTENDS Integers, Sequences, FiniteSets, TLC

\* ---------------------------------------------------------------- constants
NUM_RESTARTS == 5

\* ---------------------------------------------------------------- bounds
MaxFrames == 2      \* audio frames the caller enqueues over the whole run
MaxEvents == 1      \* Transcription events the consumer has not yet taken
MaxTime == 3        \* last value of the clock getSeconds() reads
MaxCutoff == 1      \* largest time_cutoff_seconds of a TimeEndpointingConfig

VARIABLES
    cfg,                  \* transcriber_config.endpointing_config
    closed,               \* self.closed
    last_signal_seconds,  \* self.last_signal_seconds
    input_queue,          \* self._input_queue
    restarts,             \* _run_loop's local restarts
    rlpc,                 \* where the _run_loop task is
    exc,                  \* the exception that escaped _run_loop ("none" if none)
    ws,                   \* the connection of the current process() call
    spc,                  \* where the sender task is
    data,                 \* sender's local data (the item taken off the queue)
    rpc,                  \* where the receiver task is
    buffer,               \* receiver's local buffer
    tpc,                  \* where the terminate() call is
    now,                  \* the clock of getSeconds(), as of the last message processed
    events,               \* what produce_nonblocking was given and the consumer has not taken
    wire,                 \* what ws.send wrote, in order
    attempts,             \* history: websockets.connect calls made
    established,          \* history: of which succeeded
    nenq,                 \* history: audio frames enqueued
    lastMsg,              \* history: the message the receiver read last
    nread,                \* history: messages the receiver has read, modulo 2
    termConn              \* history: the connection open when terminate() ran (0: none)

vars == <<cfg, closed, last_signal_seconds, input_queue, restarts, rlpc, exc, ws,
          spc, data, rpc, buffer, tpc, now, events, wire, attempts, established,
          nenq, lastMsg, nread, termConn>>

\* ---------------------------------------------------------------- values
NoConfig == [kind |-> "none", time_cutoff_seconds |-> 0]
OtherEndpointingConfig == [kind |-> "other", time_cutoff_seconds |-> 0]
TimeEndpointingConfig(s) == [kind |-> "time", time_cutoff_seconds |-> s]
EndpointingConfigs ==
    {NoConfig, OtherEndpointingConfig} \cup {TimeEndpointingConfig(s) : s \in 1..MaxCutoff}

Frame(i) == [kind |-> "frame", id |-> i]
CloseStream == [kind |-> "CloseStream", id |-> 0]
NoItem == [kind |-> "none", id |-> 0]

\* What ws.recv() can hand over.  json: "ok" decodes and has the keys the receiver
\* reads; "undecodable" makes json.loads raise; "no_elements" decodes but has no
\* "elements" key.
Msg(t, e) == [type |-> t, elements |-> e, json |-> "ok"]
Undecodable == [type |-> "", elements |-> <<>>, json |-> "undecodable"]
NoElements(t) == [type |-> t, elements |-> <<>>, json |-> "no_elements"]
NoMsg == [type |-> "", elements |-> <<>>, json |-> "none"]
ElementLists == {<<>>, <<"a">>, <<"a", "b">>}
Messages ==
    {Msg("connected", <<>>)}
    \cup {Msg(t, e) : t \in {"partial", "final"}, e \in ElementLists}
    \cup {Msg("other", <<"a">>), NoElements("other"), Undecodable}
\* the messages of the specification that follows the audio frames
CoreMessages == {Msg("connected", <<>>), Msg("partial", <<"a">>), Undecodable}

TranscriptionNoConfidence(m, c, f) == [message |-> m, confidence |-> 0, is_final |-> f]

Transcription(m, c, f) == [message |-> m, confidence |-> c, is_final |-> f]

\* ---------------------------------------------------------------- receiver's arithmetic
\* "".join([e["value"] for e in data["elements"]])
RECURSIVE Join(_)
Join(es) == IF es = <<>> THEN "" ELSE Head(es) \o Join(Tail(es))

\* lines 102-105: isinstance(endpointing_config, TimeEndpointingConfig)
IsTimeEndpointing(c) == c.kind = "time"

\* ReadsClock with the isinstance test left out
ReadsClockAnyConfig(c, buf) ==
    /\ Len(buf) > 0
    /\ c.kind # "none"

\* lines 100-105: the conjuncts before getSeconds() in the and-chain; Python
\* evaluates lines 107-109 only when they hold
ReadsClock(c, buf) ==
    /\ Len(buf) > 0
    /\ c.kind # "none"
    /\ IsTimeEndpointing(c)

\* CutoffPassed with the cutoff counted twice
CutoffPassedLate(c, last, t) == t > last + 2 * c.time_cutoff_seconds

\* lines 107-109
CutoffPassed(c, last, t) == t > last + c.time_cutoff_seconds

\* lines 99-111: the test that forces is_done
ForcedDone(c, buf, last, t) == ReadsClock(c, buf) /\ CutoffPassed(c, last, t)

\* IsDone with line 98 comparing against a type the service never sends
IsDoneForcedOnly(c, m, buf, last, t) == m.type = "Final" \/ ForcedDone(c, buf, last, t)

\* lines 98-112
IsDone(c, m, buf, last, t) == m.type = "final" \/ ForcedDone(c, buf, last, t)

\* lines 115-116
GrownByTwo(new_text, buf) == Len(new_text) > Len(buf) + 1

Grown(new_text, buf) == Len(new_text) > Len(buf)

\* EventText with the event built before line 117 has replaced the buffer
EventTextStale(new_text, buf) == buf

\* line 122 / 127: the text of the event
EventText(new_text, buf) == new_text

\* RunLoopGuard without the closed test
RunLoopGuardBudgetOnly(c, r) == r < NUM_RESTARTS

\* line 66
RunLoopGuard(c, r) == ~c /\ r < NUM_RESTARTS

\* line 75
SenderGuardAlways(c) == TRUE

SenderGuard(c) == ~c

\* ReceiverGuard without the closed test
ReceiverGuardAlways(c) == TRUE

\* line 87
ReceiverGuard(c) == ~c

\* QueueHead taking the newest item
QueueNewest(q) == q[Len(q)]

\* line 77: asyncio.Queue.get takes the oldest item
QueueHead(q) == Head(q)
QueueRest(q) == Tail(q)

\* ---------------------------------------------------------------- initial state
Init ==
    /\ cfg \in EndpointingConfigs
    /\ closed = FALSE
    /\ last_signal_seconds = 0
    /\ input_queue = <<>>
    /\ restarts = 0
    /\ rlpc = "init"
    /\ exc = "none"
    /\ ws = "none"
    /\ spc = "none"
    /\ data = NoItem
    /\ rpc = "none"
    /\ buffer = ""
    /\ tpc = "idle"
    /\ now = 1
    /\ events = <<>>
    /\ wire = <<>>
    /\ attempts = 0
    /\ established = 0
    /\ nenq = 0
    /\ lastMsg = NoMsg
    /\ nread = 0
    /\ termConn = 0

\* ---------------------------------------------------------------- _run_loop
\* lines 66-67: the loop test with restarts = r, then either the next process()
\* call (up to the await inside websockets.connect) or the end of _run_loop
LoopTest(r) ==
    IF RunLoopGuard(closed, r)
    THEN /\ rlpc' = "connecting"
         /\ attempts' = attempts + 1
    ELSE /\ rlpc' = "done"
         /\ attempts' = attempts

\* the worker task starts running _run_loop
RunLoopStart ==
    /\ rlpc = "init"
    /\ LoopTest(restarts)
    /\ UNCHANGED <<cfg, closed, last_signal_seconds, input_queue, restarts, exc, ws,
                   spc, data, rpc, buffer, tpc, now, events, wire, established,
                   nenq, lastMsg, nread, termConn>>

\* line 72: websockets.connect succeeds; line 136: gather creates the two tasks
ConnectOk ==
    /\ rlpc = "connecting"
    /\ rlpc' = "gather"
    /\ ws' = "open"
    /\ established' = established + 1
    /\ spc' = "start"
    /\ rpc' = "start"
    /\ UNCHANGED <<cfg, closed, last_signal_seconds, input_queue, restarts, exc,
                   data, buffer, tpc, now, events, wire, attempts, nenq, lastMsg, nread,
                   termConn>>

\* line 72: websockets.connect raises; nothing in process() or _run_loop catches it
ConnectFail ==
    /\ rlpc = "connecting"
    /\ rlpc' = "raised"
    /\ exc' = "connect"
    /\ UNCHANGED <<cfg, closed, last_signal_seconds, input_queue, restarts, ws,
                   spc, data, rpc, buffer, tpc, now, events, wire, attempts,
                   established, nenq, lastMsg, nread, termConn>>

\* line 136 returns: both tasks are done; lines 68-69, then the loop test again
GatherDone ==
    /\ rlpc = "gather"
    /\ spc = "done"
    /\ rpc = "done"
    /\ restarts' = restarts + 1
    /\ LoopTest(restarts + 1)
    /\ ws' = "none"
    /\ spc' = "none"
    /\ rpc' = "none"
    /\ UNCHANGED <<cfg, closed, last_signal_seconds, input_queue, exc, data, buffer,
                   tpc, now, events, wire, established, nenq, lastMsg, nread, termConn>>

\* line 136 raises: gather passes on the first exception of a task without waiting
\* for (or cancelling) the other; the async with closes ws; _run_loop has no handler
GatherRaise ==
    /\ rlpc = "gather"
    /\ \/ spc = "raised" /\ exc' = "send"
       \/ rpc = "raised" /\ exc' = "decode"
    /\ rlpc' = "raised"
    /\ ws' = IF ws = "open" THEN "closed" ELSE ws
    /\ UNCHANGED <<cfg, closed, last_signal_seconds, input_queue, restarts, spc,
                   data, rpc, buffer, tpc, now, events, wire, attempts, established,
                   nenq, lastMsg, nread, termConn>>

\* ---------------------------------------------------------------- sender
\* line 75: the while test, then either the queue get or the close after the loop
SenderTop == IF SenderGuard(closed) THEN "get" ELSE "close"

SenderStart ==
    /\ spc = "start"
    /\ spc' = SenderTop
    /\ UNCHANGED <<cfg, closed, last_signal_seconds, input_queue, restarts, rlpc, exc,
                   ws, data, rpc, buffer, tpc, now, events, wire, attempts,
                   established, nenq, lastMsg, nread, termConn>>

\* line 77: the get returns an item
SenderGet ==
    /\ spc = "get"
    /\ input_queue # <<>>
    /\ data' = QueueHead(input_queue)
    /\ input_queue' = QueueRest(input_queue)
    /\ spc' = "send"
    /\ UNCHANGED <<cfg, closed, last_signal_seconds, restarts, rlpc, exc, ws, rpc,
                   buffer, tpc, now, events, wire, attempts, established, nenq,
                   lastMsg, nread, termConn>>

\* lines 78-79: nothing arrived for 5 seconds
SenderTimeout ==
    /\ spc = "get"
    /\ input_queue = <<>>
    /\ spc' = "close"
    /\ UNCHANGED <<cfg, closed, last_signal_seconds, input_queue, restarts, rlpc, exc,
                   ws, data, rpc, buffer, tpc, now, events, wire, attempts,
                   established, nenq, lastMsg, nread, termConn>>

\* line 80: ws.send writes the item, or raises ConnectionClosed (not caught)
SenderSend ==
    /\ spc = "send"
    /\ IF ws = "open"
       THEN /\ wire' = Append(wire, data)
            /\ spc' = SenderTop
       ELSE /\ wire' = wire
            /\ spc' = "raised"
    /\ data' = NoItem
    /\ UNCHANGED <<cfg, closed, last_signal_seconds, input_queue, restarts, rlpc, exc,
                   ws, rpc, buffer, tpc, now, events, attempts, established, nenq,
                   lastMsg, nread, termConn>>

\* SenderClose without the ws.close() of line 81
SenderLeavesOpen ==
    /\ spc = "close"
    /\ spc' = "done"
    /\ UNCHANGED <<cfg, closed, last_signal_seconds, input_queue, restarts, rlpc, exc,
                   ws, data, rpc, buffer, tpc, now, events, wire, attempts, established,
                   nenq, lastMsg, nread, termConn>>

\* line 81
SenderClose ==
    /\ spc = "close"
    /\ ws' = IF ws = "open" THEN "closed" ELSE ws
    /\ spc' = "done"
    /\ UNCHANGED <<cfg, closed, last_signal_seconds, input_queue, restarts, rlpc, exc,
                   data, rpc, buffer, tpc, now, events, wire, attempts, established,
                   nenq, lastMsg, nread, termConn>>

\* ---------------------------------------------------------------- receiver
\* line 87: the while test
ReceiverTop == IF ReceiverGuard(closed) THEN "recv" ELSE "done"

\* line 85, then the first while test
ReceiverStartKeepsBuffer ==
    /\ rpc = "start"
    /\ rpc' = ReceiverTop
    /\ UNCHANGED <<cfg, closed, last_signal_seconds, input_queue, restarts, rlpc, exc,
                   ws, spc, data, buffer, tpc, now, events, wire, attempts,
                   established, nenq, lastMsg, nread, termConn>>

ReceiverStart ==
    /\ rpc = "start"
    /\ buffer' = ""
    /\ rpc' = ReceiverTop
    /\ UNCHANGED <<cfg, closed, last_signal_seconds, input_queue, restarts, rlpc, exc,
                   ws, spc, data, tpc, now, events, wire, attempts, established,
                   nenq, lastMsg, nread, termConn>>

\* lines 98-132 for a decoded message m that has elements, run at time t (no
\* await in these lines: getSeconds() of lines 107 and 116 reads the same clock)
\* lines 117 and 122-124: the buffer takes the new text, and is cleared when the
\* message is done
NextBufferCleared(is_done, new_text) == ""

NextBuffer(is_done, new_text) == IF is_done THEN "" ELSE new_text

Accumulate(m, t) ==
    LET is_done == IsDone(cfg, m, buffer, last_signal_seconds, t)
        new_text == Join(m.elements)
    IN  /\ last_signal_seconds' =
               IF Grown(new_text, buffer) THEN t ELSE last_signal_seconds
        /\ now' = t
        /\ events' = Append(events, Transcription(EventText(new_text, buffer), 1, is_done))
        /\ buffer' = NextBuffer(is_done, new_text)

\* lines 89-132: ws.recv returns m at time t
RecvMsg(m, t) ==
    /\ rpc = "recv"
    /\ ws = "open"
    /\ Len(events) < MaxEvents
    /\ lastMsg' = m
    /\ nread' = 1 - nread
    /\ IF m.json = "undecodable"
       THEN /\ rpc' = "raised"
            /\ UNCHANGED <<last_signal_seconds, now, events, buffer>>
       ELSE IF m.type = "connected"
       THEN /\ rpc' = ReceiverTop
            /\ UNCHANGED <<last_signal_seconds, now, events, buffer>>
       ELSE IF m.json = "no_elements"
       THEN /\ rpc' = "raised"
            /\ UNCHANGED <<last_signal_seconds, now, events, buffer>>
       ELSE /\ Accumulate(m, t)
            /\ rpc' = ReceiverTop
    /\ UNCHANGED <<cfg, closed, input_queue, restarts, rlpc, exc, ws, spc, data, tpc,
                   wire, attempts, established, nenq, termConn>>

\* lines 90-92: ws.recv raises on a closed connection
RecvFailRetries ==
    /\ rpc = "recv"
    /\ ws # "open"
    /\ UNCHANGED vars

RecvFail ==
    /\ rpc = "recv"
    /\ ws # "open"
    /\ rpc' = "done"
    /\ UNCHANGED <<cfg, closed, last_signal_seconds, input_queue, restarts, rlpc, exc,
                   ws, spc, data, buffer, tpc, now, events, wire, attempts,
                   established, nenq, lastMsg, nread, termConn>>

\* ---------------------------------------------------------------- terminate
FlowsStopped ==
    /\ spc \notin {"start", "get", "send", "close"}
    /\ rpc \notin {"start", "recv"}

\* lines 139-141, up to the await of line 142
TerminateCall ==
    /\ tpc = "idle"
    /\ input_queue' = Append(input_queue, CloseStream)
    /\ closed' = TRUE
    /\ tpc' = "waiting"
    /\ termConn' = IF ws = "open" THEN attempts ELSE 0
    /\ UNCHANGED <<cfg, last_signal_seconds, restarts, rlpc, exc, ws, spc, data, rpc,
                   buffer, now, events, wire, attempts, established, nenq, lastMsg, nread>>

\* line 142: super().terminate() waits for the flows in flight to exit
TerminateReturn ==
    /\ tpc = "waiting"
    /\ FlowsStopped
    /\ tpc' = "returned"
    /\ UNCHANGED <<cfg, closed, last_signal_seconds, input_queue, restarts, rlpc, exc,
                   ws, spc, data, rpc, buffer, now, events, wire, attempts,
                   established, nenq, lastMsg, nread, termConn>>

\* ---------------------------------------------------------------- environment
\* the caller hands over the next audio frame
Enqueue ==
    /\ nenq < MaxFrames
    /\ nenq' = nenq + 1
    /\ input_queue' = Append(input_queue, Frame(nenq + 1))
    /\ UNCHANGED <<cfg, closed, last_signal_seconds, restarts, rlpc, exc, ws, spc,
                   data, rpc, buffer, tpc, now, events, wire, attempts, established,
                   lastMsg, nread, termConn>>

\* the consumer of the transcriptions takes the oldest one
ConsumeEvent ==
    /\ events # <<>>
    /\ events' = Tail(events)
    /\ UNCHANGED <<cfg, closed, last_signal_seconds, input_queue, restarts, rlpc, exc,
                   ws, spc, data, rpc, buffer, tpc, now, wire, attempts, established,
                   nenq, lastMsg, nread, termConn>>

\* the service or the network closes the connection
ServerClose ==
    /\ ws = "open"
    /\ ws' = "peer_closed"
    /\ UNCHANGED <<cfg, closed, last_signal_seconds, input_queue, restarts, rlpc, exc,
                   spc, data, rpc, buffer, tpc, now, events, wire, attempts,
                   established, nenq, lastMsg, nread, termConn>>

\* ---------------------------------------------------------------- specifications
\* what the two specifications share: every step but the receiver's read and the
\* caller's audio
Steps ==
    \/ RunLoopStart
    \/ ConnectOk
    \/ ConnectFail
    \/ GatherDone
    \/ GatherRaise
    \/ SenderStart
    \/ SenderGet
    \/ SenderTimeout
    \/ SenderSend
    \/ SenderClose
    \/ ReceiverStart
    \/ RecvFail
    \/ TerminateCall
    \/ TerminateReturn
    \/ ConsumeEvent
    \/ ServerClose

\* Spec follows the audio: the caller enqueues frames, the service sends the
\* messages of CoreMessages, and the clock stands still.
Receive == \E m \in CoreMessages : RecvMsg(m, now)

Next ==
    \/ Steps
    \/ Enqueue
    \/ Receive

Spec == Init /\ [][Next]_vars

\* FairSpec is Spec on a running event loop: a task that can take a step takes
\* it, websockets.connect returns or raises, the 5 s of wait_for run out, and a
\* read on a closed connection raises.  Nothing is assumed of the caller, the
\* consumer or the service.
Fairness ==
    /\ WF_vars(ConnectOk \/ ConnectFail)
    /\ WF_vars(GatherDone)
    /\ WF_vars(GatherRaise)
    /\ WF_vars(SenderStart)
    /\ WF_vars(SenderGet \/ SenderTimeout)
    /\ WF_vars(SenderSend)
    /\ WF_vars(SenderClose)
    /\ WF_vars(ReceiverStart)
    /\ WF_vars(RecvFail)

FairSpec == Spec /\ Fairness

\* AccSpec follows the transcriptions: the service sends every message of
\* Messages at every time; the caller enqueues no audio (the queue carries the
\* CloseStream message alone).
AccReceive == \E m \in Messages : \E t \in now..MaxTime : RecvMsg(m, t)

AccNext ==
    \/ Steps
    \/ AccReceive

AccSpec == Init /\ [][AccNext]_vars

TypeOK ==
    /\ cfg \in EndpointingConfigs
    /\ closed \in BOOLEAN
    /\ last_signal_seconds \in 0..MaxTime
    /\ restarts \in 0..NUM_RESTARTS
    /\ attempts \in 0..NUM_RESTARTS
    /\ rlpc \in {"init", "connecting", "gather", "done", "raised"}
    /\ exc \in {"none", "connect", "send", "decode"}
    /\ ws \in {"none", "open", "closed", "peer_closed"}
    /\ spc \in {"none", "start", "get", "send", "close", "done", "raised"}
    /\ rpc \in {"none", "start", "recv", "done", "raised"}
    /\ tpc \in {"idle", "waiting", "returned"}
    /\ now \in 1..MaxTime
    /\ Len(events) <= MaxEvents
    /\ nenq \in 0..MaxFrames

\* ---------------------------------------------------------------- steps, as seen from outside
\* the receiver read a message in this step
Read == nread' # nread

\* ... and the message reached line 98: it decoded and is not "connected"
Processed == Read /\ lastMsg'.json = "ok" /\ lastMsg'.type # "connected"

\* produce_nonblocking was called once in this step, with NewEvent
Emitted == Len(events') = Len(events) + 1 /\ SubSeq(events', 1, Len(events)) = events
NewEvent == events'[Len(events')]

Ended == rlpc \in {"done", "raised"}

\* ---------------------------------------------------------------- C1
\* C1: when every connection attempt fails (and terminate() is not called),
\* _run_loop ends only after exactly NUM_RESTARTS attempts, having produced no
\* Transcription and with no exception escaping it.
C1_ConnectFailuresAbsorbed ==
    (Ended /\ established = 0 /\ ~closed)
        => (rlpc = "done" /\ exc = "none" /\ attempts = NUM_RESTARTS /\ events = <<>>)

\* ---------------------------------------------------------------- C2
\* C2: a connection attempt starts only while closed is false and fewer than
\* NUM_RESTARTS attempts have been made, whatever ended the session before it;
\* so there are never more than NUM_RESTARTS attempts and none after closed is set.
C2_AttemptsGuarded ==
    [][attempts' # attempts =>
          /\ ~closed /\ ~closed'
          /\ attempts < NUM_RESTARTS
          /\ attempts' = attempts + 1
          /\ attempts' <= NUM_RESTARTS]_vars

\* a second attempt was made after a session ended, and the loop then stopped on closed
C2_Witness ==
    /\ rlpc = "done"
    /\ closed
    /\ attempts = 2
    /\ restarts = 2

\* ---------------------------------------------------------------- C3
\* C3: with a TimeEndpointingConfig, a message that reaches line 98 with a type
\* other than final, while the buffer is non-empty and the clock is past
\* last_signal_seconds + time_cutoff_seconds, is emitted with is_final = TRUE and
\* leaves the buffer empty.
C3_CutoffForcesFinal ==
    [][(/\ Processed
        /\ lastMsg'.type # "final"
        /\ IsTimeEndpointing(cfg)
        /\ buffer # ""
        /\ now' > last_signal_seconds + cfg.time_cutoff_seconds)
       => (Emitted /\ NewEvent.is_final /\ buffer' = "")]_vars

\* a partial that repeats the buffered text "a" was forced final: the clock is past
\* the last growth plus the cutoff, the growth timestamp was not moved
C3_Witness ==
    /\ IsTimeEndpointing(cfg)
    /\ lastMsg = Msg("partial", <<"a">>)
    /\ nread = 0
    /\ events = <<Transcription("a", 1, TRUE)>>
    /\ buffer = ""
    /\ last_signal_seconds >= 1
    /\ now > last_signal_seconds + cfg.time_cutoff_seconds

\* ---------------------------------------------------------------- C4
\* C4: without a TimeEndpointingConfig (no endpointing config, or one of another
\* class), an event has is_final = TRUE only if the message it was produced for
\* has type final.
C4_NoForcedFinalWithoutTimeConfig ==
    [][(Emitted /\ ~IsTimeEndpointing(cfg) /\ NewEvent.is_final)
       => (Processed /\ lastMsg'.type = "final")]_vars

\* another endpointing config: a partial repeating the buffered text, processed
\* later than any cutoff after the last growth, was emitted non-final
C4_Witness ==
    /\ cfg = OtherEndpointingConfig
    /\ lastMsg = Msg("partial", <<"a">>)
    /\ events = <<Transcription("a", 1, FALSE)>>
    /\ buffer = "a"
    /\ last_signal_seconds >= 1
    /\ now > last_signal_seconds + MaxCutoff

\* ---------------------------------------------------------------- C5
\* C5 as claimed: a partial message at least as long as the buffer (here: one
\* that follows a partial, or is the first message) yields exactly one event,
\* non-final, whose text is the message's joined element values.
C5_PartialsNonFinal ==
    [][(/\ Processed
        /\ lastMsg.type \in {"", "partial"}
        /\ lastMsg'.type = "partial"
        /\ Len(Join(lastMsg'.elements)) >= Len(buffer))
       => (/\ Emitted
           /\ NewEvent.message = Join(lastMsg'.elements)
           /\ ~NewEvent.is_final)]_vars

\* C5 as amended: such a message yields exactly one event whose text is the
\* message's joined element values; the event is non-final unless the config is a
\* TimeEndpointingConfig, the buffer is non-empty and the clock is past
\* last_signal_seconds + time_cutoff_seconds, and then it is final.
C5_PartialsOneEvent ==
    [][(/\ Processed
        /\ lastMsg'.type = "partial"
        /\ Len(Join(lastMsg'.elements)) >= Len(buffer))
       => (/\ Emitted
           /\ NewEvent.message = Join(lastMsg'.elements)
           /\ NewEvent.confidence = 1
           /\ NewEvent.is_final =
                  (/\ IsTimeEndpointing(cfg)
                   /\ buffer # ""
                   /\ now' > last_signal_seconds + cfg.time_cutoff_seconds))]_vars

\* a second message, the partial "ab", was emitted non-final with its own text
C5_Witness ==
    /\ lastMsg = Msg("partial", <<"a", "b">>)
    /\ nread = 0
    /\ events = <<Transcription("ab", 1, FALSE)>>
    /\ buffer = "ab"

\* ---------------------------------------------------------------- C6
\* C6: a final message that reaches line 98 yields exactly one event, final, with
\* the message's joined element values, and leaves the buffer empty; no step but
\* the processing of the next message makes the buffer non-empty again.
C6_FinalEmitsAndClears ==
    [][/\ (Processed /\ lastMsg'.type = "final")
           => (/\ Emitted
               /\ NewEvent = Transcription(Join(lastMsg'.elements), 1, TRUE)
               /\ buffer' = "")
       /\ (~Processed => buffer' \in {buffer, ""})]_vars

\* a final "a" after an earlier message: emitted final, buffer empty
C6_Witness ==
    /\ lastMsg = Msg("final", <<"a">>)
    /\ nread = 0
    /\ events = <<Transcription("a", 1, TRUE)>>
    /\ buffer = ""

\* ---------------------------------------------------------------- C7
RECURSIVE FrameIds(_)
FrameIds(items) ==
    IF items = <<>> THEN <<>>
    ELSE IF Head(items).kind = "frame"
         THEN <<Head(items).id>> \o FrameIds(Tail(items))
         ELSE FrameIds(Tail(items))

Increasing(ids) == \A i \in 1..Len(ids) : \A j \in 1..Len(ids) : i < j => ids[i] < ids[j]

\* the frames that are written, being written and waiting, in that order
Pipeline(w, d, q) == FrameIds(w \o <<d>> \o q)

\* C7: frames are numbered as they are enqueued.  Across all sessions the frames
\* written, the frame being written and the frames queued are in enqueue order
\* with none twice, and a step of _run_loop (a session ending, the next attempt
\* starting) leaves the queue as it is.
C7_FramesInOrder ==
    [][/\ Increasing(Pipeline(wire', data', input_queue'))
       /\ (rlpc' # rlpc => input_queue' = input_queue)]_vars

\* both frames are on the wire, in order, and a second session has been started
C7_Witness ==
    /\ wire = <<Frame(1), Frame(2)>>
    /\ attempts = 2
    /\ established = 2

\* ---------------------------------------------------------------- C8
\* C8: once terminate() has returned, no step produces a Transcription.
C8_NoEventAfterTerminate ==
    [][tpc = "returned" => ~Emitted /\ ~Read]_vars

\* terminate() has returned after a session in which a partial was processed
C8_Witness ==
    /\ tpc = "returned"
    /\ rlpc = "done"
    /\ lastMsg = Msg("partial", <<"a">>)

\* ---------------------------------------------------------------- C9
Running == rlpc \in {"connecting", "gather"}

\* C9: on a running event loop, once closed is set the sender and the receiver
\* stop and _run_loop is over (returned or raised).
C9_ClosedLeadsToExit == closed ~> (FlowsStopped /\ ~Running)

\* terminate() ran while the sender was waiting on an empty queue, the receiver
\* on the open connection
C9_Witness ==
    /\ closed
    /\ tpc = "waiting"
    /\ spc = "get"
    /\ input_queue = <<CloseStream>>
    /\ rpc = "recv"
    /\ ws = "open"

\* ---------------------------------------------------------------- C10
OnWire(item) == \E i \in 1..Len(wire) : wire[i] = item

\* C10, for a session whose sender has written audio: when terminate() ran while
\* the connection was open and the sender has closed that connection, CloseStream
\* has been written to it.
C10_CloseStreamBeforeClose ==
    (/\ termConn # 0
     /\ attempts = termConn
     /\ OnWire(Frame(1))
     /\ spc = "done"
     /\ ws = "closed")
        => OnWire(CloseStream)

\* ---------------------------------------------------------------- C11
\* C11: a message that does not decode stops the receiver and ends the session
\* for the supervisor to retry; the error does not escape _run_loop.
C11_DecodeErrorAbsorbed ==
    ~(lastMsg = Undecodable /\ rlpc = "raised" /\ exc = "decode")

\* ---------------------------------------------------------------- C12
\* C12: a message whose type is none of connected, partial, final produces no
\* event, leaves the buffer and last_signal_seconds as they are, and neither
\* stops the receiver nor raises.
C12_UnknownTypeIgnored ==
    [][(Read /\ lastMsg'.type = "other")
       => (/\ events' = events
           /\ buffer' = buffer
           /\ last_signal_seconds' = last_signal_seconds
           /\ rpc' # "raised"
           /\ (~closed => rpc' = "recv"))]_vars

\* ---------------------------------------------------------------- C13
\* C13: a ws.send that fails ends the session and is consumed by _run_loop; it
\* does not escape.
C13_SendFailureAbsorbed ==
    ~(rlpc = "raised" /\ exc = "send")

\* ---------------------------------------------------------------- C14
\* C14: while process() is not running (before it, after it returned or raised)
\* no sender and no receiver is running.
C14_ProcessOutlivesFlows ==
    rlpc # "gather" => FlowsStopped

\* ---------------------------------------------------------------- C15
SenderStopped == spc \in {"done", "raised"}
ReceiverStopped == rpc \in {"done", "raised"}

\* C15: within a session, once the sender or the receiver has stopped, the other
\* one stops too and process() is over (frames may go on being enqueued
\* meanwhile).
C15_OneStopsOtherStops ==
    (rlpc = "gather" /\ (SenderStopped \/ ReceiverStopped))
        ~> (FlowsStopped /\ rlpc # "gather")

\* the receiver left on a read failure while the sender holds a frame that was
\* enqueued after the service closed the connection
C15_Witness ==
    /\ rlpc = "gather"
    /\ rpc = "done"
    /\ ws = "peer_closed"
    /\ spc = "get"
    /\ input_queue = <<Frame(1)>>
    /\ ~closed

\* ---------------------------------------------------------------- C16
\* a message was processed and did not end the utterance
Continued == Processed /\ Emitted /\ ~NewEvent.is_final

\* C16: within an utterance the buffer is never shorter after a processed
\* message than before it (stated for a partial that follows a partial).
C16_BufferNeverShrinks ==
    [][(Continued /\ lastMsg.type = "partial" /\ lastMsg'.type = "partial")
       => Len(buffer') >= Len(buffer)]_vars

\* C16, amended: within an utterance the buffer after a processed message is
\* that message's text, so it is shorter than before only when the message's
\* own text is shorter than the buffered text.
C16_BufferShrinksOnlyOnShorterText ==
    [][Continued
       => (/\ buffer' = Join(lastMsg'.elements)
           /\ (Len(Join(lastMsg'.elements)) >= Len(buffer)
                  => Len(buffer') >= Len(buffer)))]_vars

\* a partial "a" was processed at time 2 on top of a buffer that had last grown
\* at time 1, and the utterance goes on
C16_Witness ==
    /\ buffer = "a"
    /\ lastMsg = Msg("partial", <<"a">>)
    /\ events = <<Transcription("a", 1, FALSE)>>
    /\ last_signal_seconds = 1
    /\ now = 2
    /\ rpc = "recv"

\* ---------------------------------------------------------------- C17
\* the receiver of a session executes line 85 and reaches its loop
ReceiverBegins == rpc = "start" /\ rpc' # "start"

\* the event of this step is final although the message is not of type final
ForcedFinal == Emitted /\ NewEvent.is_final /\ lastMsg'.type # "final"

\* C17: a session begins with neither the buffer nor last_signal_seconds of an
\* earlier session: both have their initial values when its receiver begins.
C17_NothingCarriedOver ==
    [][ReceiverBegins => (buffer' = "" /\ last_signal_seconds' = 0)]_vars

\* C17, amended: a session begins with an empty buffer, the buffer stays empty
\* until the session processes a message, and a message processed on an empty
\* buffer is never forced final, whatever last_signal_seconds and the clock are.
C17_FreshBuffer ==
    [][/\ ReceiverBegins => buffer' = ""
       /\ ~Processed => buffer' \in {buffer, ""}
       /\ (Processed /\ buffer = "") => ~ForcedFinal]_vars

\* the second session has processed a partial on its empty buffer, past the
\* cutoff counted from the last_signal_seconds an earlier message left behind:
\* the event is not final
C17_Witness ==
    /\ established = 2
    /\ IsTimeEndpointing(cfg)
    /\ rpc = "recv"
    /\ ws = "open"
    /\ lastMsg = Msg("partial", <<>>)
    /\ events = <<Transcription("", 1, FALSE)>>
    /\ buffer = ""
    /\ last_signal_seconds = 1
    /\ now = 3

\* ---------------------------------------------------------------- C18
\* C18: the step that makes the buffer non-empty writes last_signal_seconds with
\* the clock of that step, and as long as the buffer stays non-empty
\* last_signal_seconds changes only to the clock of a processed message; so
\* whenever the buffer is non-empty (the only case in which the cutoff test
\* reads it), last_signal_seconds is not the initial 0 and was written at or
\* after the message that began the utterance, in this session.
C18_StampOfCurrentUtterance ==
    [][/\ (buffer = "" /\ buffer' # "")
              => (Processed /\ last_signal_seconds' = now')
       /\ (buffer # "" /\ buffer' # ""
              /\ last_signal_seconds' # last_signal_seconds)
              => (Processed /\ last_signal_seconds' = now')
       /\ (buffer' # "") => (last_signal_seconds' \in 1..now')
       /\ ReceiverBegins => buffer' = ""]_vars

\* in its second session the receiver holds "a", buffered at time 2, and a
\* repeated partial at time 3 has passed the cutoff test without being forced
C18_Witness ==
    /\ established = 2
    /\ cfg = TimeEndpointingConfig(1)
    /\ rpc = "recv"
    /\ buffer = "a"
    /\ lastMsg = Msg("partial", <<"a">>)
    /\ events = <<Transcription("a", 1, FALSE)>>
    /\ last_signal_seconds = 2
    /\ now = 3

\* ---------------------------------------------------------------- C19
\* ws.send succeeded in this step
Written == wire' # wire

\* C19: nothing is written once CloseStream has been written (so CloseStream is
\* written at most once, is the last item on its connection, and no frame
\* follows it), and a write made after closed was set is the sender's last: it
\* goes on to close the connection.
C19_CloseStreamIsLast ==
    [][Written
       => (/\ ~OnWire(CloseStream)
           /\ Len(wire') = Len(wire) + 1
           /\ closed => spc' = "close")]_vars

\* terminate() ran after two frames had been written, while the sender waited on
\* the empty queue; the sender wrote CloseStream and closed the connection
C19_Witness ==
    /\ closed
    /\ wire = <<Frame(1), Frame(2), CloseStream>>
    /\ spc = "done"
    /\ ws = "closed"

\* ---------------------------------------------------------------- C20
\* C20: whatever the endpointing config, a processed partial or final message
\* appends exactly one event, with confidence 1 and the message's own joined
\* element values as text, behind the events of the earlier messages; events
\* come from processed messages only; a connected message appends no event and
\* changes neither the buffer nor last_signal_seconds.
C20_OneEventPerMessage ==
    [][/\ (Processed /\ lastMsg'.type \in {"partial", "final"})
              => (/\ Emitted
                  /\ NewEvent.message = Join(lastMsg'.elements)
                  /\ NewEvent.confidence = 1)
       /\ (Len(events') > Len(events)) => (Processed /\ Emitted)
       /\ (Read /\ lastMsg' = Msg("connected", <<>>))
              => (/\ events' = events
                  /\ buffer' = buffer
                  /\ last_signal_seconds' = last_signal_seconds
                  /\ rpc' \in {"recv", "done"}
                  /\ ~closed => rpc' = "recv")]_vars

\* with no endpointing config, the final "ab" has been processed at time 2 on
\* top of a buffer that grew at time 1: its event carries "ab"
C20_Witness ==
    /\ cfg = NoConfig
    /\ lastMsg = Msg("final", <<"a", "b">>)
    /\ events = <<Transcription("ab", 1, TRUE)>>
    /\ buffer = ""
    /\ last_signal_seconds = 1
    /\ now = 2
    /\ rpc = "recv"

====
